---- MODULE Spec2Model ----
(***************************************************************************)
(* Query & tool-dispatch engine of the investment advisor:                 *)
(*   backend/data_processor.py   the filter/rank engine over the CSV table *)
(*   backend/openai_functions.py the tool registry and the dispatcher      *)
(*   backend/chat_handler.py     the conversation orchestrator             *)
(*                                                                         *)
(* Data representation.                                                    *)
(*   - A string is a sequence of symbols (<<"o","i","l">>).  A symbol is   *)
(*     one character, or a run of characters no input ever splits (the     *)
(*     words of the evaluation scale).                                     *)
(*   - A missing CSV cell (pandas NaN) is NaN in a numeric column and      *)
(*     NaNStr in a text column.                                            *)
(*   - The loaded DataFrame df is the sequence of its rows; a row is a     *)
(*     function from column name to cell.  A derived frame (filtered_df,   *)
(*     top_stocks, ...) is the sequence of the index labels it keeps, a    *)
(*     label being the row's position in df.                               *)
(*   - A Python dict is a function from key to value.                      *)
(***************************************************************************)
EXTENDS Integers, Sequences, FiniteSets, TLC

VARIABLES
    df,                     \* what load_stock_data() yields for this call
    call,                   \* the entry point invoked and its arguments
    result,                 \* the value it returned
    conversation_history,   \* StockChatHandler.conversation_history
    pc,                     \* position inside get_stock_recommendation
    turn,                   \* locals of the running get_stock_recommendation
    ret                     \* what the last get_stock_recommendation returned

vars == <<df, call, result, conversation_history, pc, turn, ret>>

(***************************************************************************)
(* Bounds of the model.                                                    *)
(***************************************************************************)
\* rows of a table
MaxRows == 3
\* rows of a table of star ratings
MaxStarRows == 4
\* largest limit argument tried
MaxLimit == 3
\* longest stock_list tried
MaxIds == 3
\* get_stock_recommendation calls per behaviour
MaxTurns == 2
\* queries answered before the behaviour starts
MaxPastTurns == 4

(***************************************************************************)
(* Missing values.                                                         *)
(***************************************************************************)
NaN == -999
NaNStr == <<"NaN">>

notna(x) == x # NaN
notna_str(s) == s # NaNStr

\* Comparisons of numpy: every comparison with NaN is False.
Ge(x, y) == x # NaN /\ y # NaN /\ x >= y
Le(x, y) == x # NaN /\ y # NaN /\ x <= y

(***************************************************************************)
(* Strings.                                                                *)
(***************************************************************************)
lower(c) ==
    CASE c = "A" -> "a"
      [] c = "B" -> "b"
      [] c = "O" -> "o"
      [] c = "Positive" -> "positive"
      [] OTHER -> c

\* re.compile(pat): the alphabet of the model has "(" but no ")", so a
\* pattern holding "(" is an unterminated group and re.compile raises re.error.
re_compiles(pat) == \A i \in 1..Len(pat) : pat[i] # "("

\* pat.search(text) under re.IGNORECASE for patterns of literals and "."
\* ("." matches any one character).
re_search(pat, text) ==
    \E o \in 1..(Len(text) - Len(pat) + 1) :
        \A j \in 1..Len(pat) :
            pat[j] = "." \/ lower(pat[j]) = lower(text[o + j - 1])

\* s is a substring of text, ignoring case (the literal reading of a name).
is_substring_nocase(s, text) ==
    \E o \in 1..(Len(text) - Len(s) + 1) :
        \A j \in 1..Len(s) : lower(s[j]) = lower(text[o + j - 1])

(***************************************************************************)
(* Frames.                                                                 *)
(***************************************************************************)
Labels(t) == 1..Len(t)

\* The frame of all rows of t, in table order.
RECURSIVE AllRows(_)
AllRows(t) ==
    IF Len(t) = 0 THEN <<>> ELSE Append(AllRows(SubSeq(t, 1, Len(t) - 1)), Len(t))

Range(s) == {s[i] : i \in 1..Len(s)}

\* frame[mask]: the labels of frame whose row is in keep, order preserved.
RECURSIVE BoolIndex(_, _)
BoolIndex(frame, keep) ==
    IF frame = <<>> THEN <<>>
    ELSE IF Head(frame) \in keep
         THEN <<Head(frame)>> \o BoolIndex(Tail(frame), keep)
         ELSE BoolIndex(Tail(frame), keep)

\* Series.unique().tolist(): the distinct cells of a column in order of first
\* appearance (a missing cell is one of the values).
RECURSIVE unique(_, _)
unique(t, col) ==
    IF Len(t) = 0 THEN <<>>
    ELSE LET front == unique(SubSeq(t, 1, Len(t) - 1), col)
             v == t[Len(t)][col]
         IN IF v \in Range(front) THEN front ELSE Append(front, v)

\* A text column read from CSV has dtype object when some cell holds text; a
\* column whose cells are all missing is read as float64 and has no .str.
has_str_accessor(t, col) == \E i \in Labels(t) : notna_str(t[i][col])

(***************************************************************************)
(* DataFrame.nlargest(n, column), keep = "first" (pandas SelectNSeries).   *)
(*   n <= 0          : empty                                               *)
(*   n >= len(frame) : frame.sort_values(ascending=False).head(n); the     *)
(*                     sort is numpy's default quicksort, which is not a   *)
(*                     stable sort: rows with equal keys come in any order;*)
(*                     missing keys come last, in frame order              *)
(*   n <  len(frame) : the n largest by a stable (merge) sort of the       *)
(*                     non-missing keys, first occurrences preferred, then *)
(*                     the rows with a missing key, cut to n rows          *)
(* key is a function from label to numeric cell.                           *)
(***************************************************************************)
IsDescending(s, key) == \A i \in 1..(Len(s) - 1) : key[s[i]] >= key[s[i + 1]]

\* Insert label x into the stably sorted s after every label whose key is >= .
RECURSIVE InsertStable(_, _, _)
InsertStable(s, x, key) ==
    IF s = <<>> THEN <<x>>
    ELSE IF key[Head(s)] >= key[x]
         THEN <<Head(s)>> \o InsertStable(Tail(s), x, key)
         ELSE <<x>> \o s

RECURSIVE StableDescending(_, _)
StableDescending(frame, key) ==
    IF frame = <<>> THEN <<>>
    ELSE InsertStable(StableDescending(SubSeq(frame, 1, Len(frame) - 1), key),
                      frame[Len(frame)], key)

\* Every arrangement of frame's labels that is descending by key.
DescendingOrders(frame, key) ==
    {p \in [1..Len(frame) -> Range(frame)] :
        /\ \A i, j \in 1..Len(frame) : i # j => p[i] # p[j]
        /\ IsDescending(p, key)}

TakeFirst(s, n) == SubSeq(s, 1, IF n < Len(s) THEN n ELSE Len(s))

nlargest_ignores_n(n, frame, key) ==
    LET dropped == BoolIndex(frame, {l \in Range(frame) : notna(key[l])})
        nan_index == BoolIndex(frame, {l \in Range(frame) : ~notna(key[l])})
    IN {p \o nan_index : p \in DescendingOrders(dropped, key)}

nlargest(n, frame, key) ==
    LET dropped == BoolIndex(frame, {l \in Range(frame) : notna(key[l])})
        nan_index == BoolIndex(frame, {l \in Range(frame) : ~notna(key[l])})
    IN IF n <= 0 THEN {<<>>}
       ELSE IF n >= Len(frame)
            THEN {p \o nan_index : p \in DescendingOrders(dropped, key)}
            ELSE {TakeFirst(StableDescending(dropped, key) \o nan_index, n)}

\* A column of df as a function from label to cell.
Column(t, col) == [l \in Labels(t) |-> t[l][col]]

(***************************************************************************)
(* Engine results.  Error messages are kept as <<text, argument>>.         *)
(***************************************************************************)
NoCall == [fn |-> "none"]
NoResult == [pending |-> TRUE]
NoDataStocks == [error |-> <<"No data available">>, stocks |-> <<>>]
NoData == [error |-> <<"No data available">>]
Caught(e) == [error |-> e, stocks |-> <<>>]

empty_never(t) == FALSE

\* df.empty
empty(t) == Len(t) = 0

(***************************************************************************)
(* get_top_stocks_by_stars(min_stars, limit): the set of values it may     *)
(* return.  stocks holds the labels of the rows reported, in order.        *)
(***************************************************************************)
get_top_stocks_by_stars(t, min_stars, limit) ==
    IF empty(t) THEN {NoDataStocks}
    ELSE LET filtered_df ==
                 BoolIndex(AllRows(t), {l \in Labels(t) : Ge(t[l]["Stars"], min_stars)})
         IN {[stocks |-> top_stocks,
              total_found |-> Len(filtered_df),
              returned |-> Len(top_stocks),
              filter_criteria |-> <<"Stars >= ", min_stars>>] :
                top_stocks \in nlargest(limit, filtered_df, Column(t, "Stars"))}

(***************************************************************************)
(* Series.str.contains(pat, case=False, na=False).  pandas reads pat as a  *)
(* regular expression (regex=True is the default): the pattern is compiled *)
(* before any row is looked at, and a missing cell gives False.            *)
(***************************************************************************)
str_contains_raises(t, col, pat) == ~has_str_accessor(t, col) \/ ~re_compiles(pat)

str_contains_error(t, col, pat) ==
    IF ~has_str_accessor(t, col)
    THEN <<"Can only use .str accessor with string values!">>
    ELSE <<"re.error: missing ), unterminated subpattern">>

str_contains(t, frame, col, pat) ==
    {l \in Range(frame) : notna_str(t[l][col]) /\ re_search(pat, t[l][col])}

(***************************************************************************)
(* The evaluation scale and the rank used to sort by "Global Evaluation".  *)
(***************************************************************************)
eval_order ==
    << <<"very", "negative">>, <<"negative">>, <<"slightly", "negative">>,
       <<"neutral">>,
       <<"slightly", "positive">>, <<"positive">>, <<"very", "positive">> >>

eval_rank_unknown_lowest(x) ==
    IF \E i \in 1..Len(eval_order) : eval_order[i] = x
    THEN (CHOOSE i \in 1..Len(eval_order) : eval_order[i] = x) - 1
    ELSE 0

\* lambda x: eval_order.index(x) if x in eval_order else 3
eval_rank(x) ==
    IF \E i \in 1..Len(eval_order) : eval_order[i] = x
    THEN (CHOOSE i \in 1..Len(eval_order) : eval_order[i] = x) - 1
    ELSE 3

\* The sort step shared by filter_stocks_by_industry and _by_sector.
sorted_frames(t, filtered_df, sort_by, limit) ==
    IF sort_by = "Stars"
    THEN nlargest(limit, filtered_df, Column(t, "Stars"))
    ELSE IF sort_by = "Global Evaluation"
         THEN nlargest(limit, filtered_df,
                       [l \in Labels(t) |-> eval_rank(t[l]["Global Evaluation"])])
         ELSE nlargest(limit, filtered_df, Column(t, "Year to date performance"))

(***************************************************************************)
(* filter_stocks_by_industry(industry_name, sort_by, limit)                *)
(***************************************************************************)
filter_stocks_by_industry(t, industry_name, sort_by, limit) ==
    IF empty(t) THEN {NoDataStocks}
    ELSE IF str_contains_raises(t, "Industry", industry_name)
    THEN {Caught(str_contains_error(t, "Industry", industry_name))}
    ELSE LET filtered_df ==
                 BoolIndex(AllRows(t), str_contains(t, AllRows(t), "Industry", industry_name))
         IN IF filtered_df = <<>>
            THEN {[error |-> <<"No stocks found for industry: ", industry_name>>,
                   available_industries |-> unique(t, "Industry"),
                   stocks |-> <<>>]}
            ELSE {[stocks |-> sorted_df,
                   industry |-> industry_name,
                   total_in_industry |-> Len(filtered_df),
                   returned |-> Len(sorted_df),
                   sorted_by |-> sort_by] :
                     sorted_df \in sorted_frames(t, filtered_df, sort_by, limit)}

(***************************************************************************)
(* filter_stocks_by_sector(sector_name, sort_by, limit)                    *)
(***************************************************************************)
filter_stocks_by_sector(t, sector_name, sort_by, limit) ==
    IF empty(t) THEN {NoDataStocks}
    ELSE IF str_contains_raises(t, "Sector", sector_name)
    THEN {Caught(str_contains_error(t, "Sector", sector_name))}
    ELSE LET filtered_df ==
                 BoolIndex(AllRows(t), str_contains(t, AllRows(t), "Sector", sector_name))
         IN IF filtered_df = <<>>
            THEN {[error |-> <<"No stocks found for sector: ", sector_name>>,
                   available_sectors |-> unique(t, "Sector"),
                   stocks |-> <<>>]}
            ELSE {[stocks |-> sorted_df,
                   sector |-> sector_name,
                   total_in_sector |-> Len(filtered_df),
                   returned |-> Len(sorted_df),
                   sorted_by |-> sort_by] :
                     sorted_df \in sorted_frames(t, filtered_df, sort_by, limit)}

(***************************************************************************)
(* compare_stocks_performance(stock_list)                                  *)
(***************************************************************************)
\* df[(df['Ticker'] == stock_id) | (df['ISIN'] == stock_id)]: exact equality;
\* a missing cell equals nothing.
id_matches_ticker_only(row, stock_id) ==
    row["Ticker"] # "NaN" /\ row["Ticker"] = stock_id

upper_id(stock_id) == IF stock_id = "a" THEN "A" ELSE stock_id
id_matches_ignoring_case(row, stock_id) ==
    \/ (row["Ticker"] # "NaN" /\ row["Ticker"] = upper_id(stock_id))
    \/ (row["ISIN"] # "NaN" /\ row["ISIN"] = upper_id(stock_id))

id_matches(row, stock_id) ==
    \/ (row["Ticker"] # "NaN" /\ row["Ticker"] = stock_id)
    \/ (row["ISIN"] # "NaN" /\ row["ISIN"] = stock_id)

lookup(t, stock_id) == BoolIndex(AllRows(t), {l \in Labels(t) : id_matches(t[l], stock_id)})

\* The loop over stock_list: <<comparison_data, not_found>> after the ids of
\* ids have been handled.  An entry of comparison_data is the label of
\* stock_row.iloc[0].
RECURSIVE compare_loop(_, _)
compare_loop(t, ids) ==
    IF ids = <<>> THEN <<<<>>, <<>>>>
    ELSE LET done == compare_loop(t, SubSeq(ids, 1, Len(ids) - 1))
             stock_id == ids[Len(ids)]
             stock_row == lookup(t, stock_id)
         IN IF stock_row = <<>>
            THEN <<done[1], Append(done[2], stock_id)>>
            ELSE <<Append(done[1], stock_row[1]), done[2]>>

compare_stocks_performance(t, stock_list) ==
    IF empty(t) THEN NoData
    ELSE LET done == compare_loop(t, stock_list)
         IN [comparison |-> done[1],
             not_found |-> done[2],
             compared_count |-> Len(done[1])]

(***************************************************************************)
(* search_stocks_by_criteria(criteria_dict)                                *)
(***************************************************************************)
DefaultSearchLimit == 20

FilterKeys ==
    {"min_stars", "max_stars", "min_ytd_performance", "max_pe_ratio",
     "valuation_rating", "global_evaluation", "sector", "industry"}

has(c, k) == k \in DOMAIN c

\* The column a substring criterion reads.
criterion_column(k) ==
    CASE k = "valuation_rating" -> "Valuation rating"
      [] k = "global_evaluation" -> "Global Evaluation"
      [] k = "sector" -> "Sector"
      [] k = "industry" -> "Industry"

text_filter_of_whole_table(t, frame, c, k) ==
    IF has(c, k)
    THEN BoolIndex(AllRows(t), str_contains(t, AllRows(t), criterion_column(k), c[k]))
    ELSE frame

\* filtered_df = filtered_df[filtered_df[col].str.contains(c[k], case=False, na=False)]
text_filter(t, frame, c, k) ==
    IF has(c, k)
    THEN BoolIndex(frame, str_contains(t, frame, criterion_column(k), c[k]))
    ELSE frame

\* The four numeric criteria, in the order of the code.
numeric_filters(t, c) ==
    LET f0 == AllRows(t)
        f1 == IF has(c, "min_stars")
              THEN BoolIndex(f0, {l \in Labels(t) : Ge(t[l]["Stars"], c["min_stars"])})
              ELSE f0
        f2 == IF has(c, "max_stars")
              THEN BoolIndex(f1, {l \in Labels(t) : Le(t[l]["Stars"], c["max_stars"])})
              ELSE f1
        f3 == IF has(c, "min_ytd_performance")
              THEN BoolIndex(f2, {l \in Labels(t) :
                       Ge(t[l]["Year to date performance"], c["min_ytd_performance"])})
              ELSE f2
    IN IF has(c, "max_pe_ratio")
       THEN BoolIndex(f3, {l \in Labels(t) : Le(t[l]["Long Term PE"], c["max_pe_ratio"])})
       ELSE f3

TextKeys == <<"valuation_rating", "global_evaluation", "sector", "industry">>

\* The first substring criterion whose str.contains raises, 0 when none does.
first_raising(t, c) ==
    LET bad == {i \in 1..Len(TextKeys) :
                   has(c, TextKeys[i])
                   /\ str_contains_raises(t, criterion_column(TextKeys[i]), c[TextKeys[i]])}
    IN IF bad = {} THEN 0 ELSE CHOOSE i \in bad : \A j \in bad : i <= j

filtered_frame(t, c) ==
    text_filter(t,
        text_filter(t,
            text_filter(t,
                text_filter(t, numeric_filters(t, c), c, "valuation_rating"),
                c, "global_evaluation"),
            c, "sector"),
        c, "industry")

filter_description(c, k) ==
    CASE k = "min_stars" -> <<"Stars >= ", c[k]>>
      [] k = "max_stars" -> <<"Stars <= ", c[k]>>
      [] k = "min_ytd_performance" -> <<"YTD Performance >= ", c[k]>>
      [] k = "max_pe_ratio" -> <<"PE Ratio <= ", c[k]>>
      [] k = "valuation_rating" -> <<"Valuation Rating: ", c[k]>>
      [] k = "global_evaluation" -> <<"Global Evaluation: ", c[k]>>
      [] k = "sector" -> <<"Sector: ", c[k]>>
      [] k = "industry" -> <<"Industry: ", c[k]>>

ApplicationOrder_text_first ==
    <<"valuation_rating", "global_evaluation", "sector", "industry",
      "min_stars", "max_stars", "min_ytd_performance", "max_pe_ratio">>

\* The order of the if statements that apply the criteria.
ApplicationOrder ==
    <<"min_stars", "max_stars", "min_ytd_performance", "max_pe_ratio",
      "valuation_rating", "global_evaluation", "sector", "industry">>

RECURSIVE applied_filters_upto(_, _)
applied_filters_upto(c, n) ==
    IF n = 0 THEN <<>>
    ELSE LET front == applied_filters_upto(c, n - 1)
         IN IF has(c, ApplicationOrder[n])
            THEN Append(front, filter_description(c, ApplicationOrder[n]))
            ELSE front

search_stocks_by_criteria(t, criteria_dict) ==
    IF empty(t) THEN {NoDataStocks}
    ELSE IF first_raising(t, criteria_dict) # 0
    THEN LET k == TextKeys[first_raising(t, criteria_dict)]
         IN {Caught(str_contains_error(t, criterion_column(k), criteria_dict[k]))}
    ELSE LET filtered_df == filtered_frame(t, criteria_dict)
             limit == IF has(criteria_dict, "limit") THEN criteria_dict["limit"]
                      ELSE DefaultSearchLimit
         IN {[stocks |-> result_df,
              total_matches |-> Len(filtered_df),
              returned |-> Len(result_df),
              applied_filters |-> applied_filters_upto(criteria_dict, Len(ApplicationOrder))] :
                result_df \in nlargest(limit, filtered_df, Column(t, "Stars"))}

(***************************************************************************)
(* get_stock_details(ticker_or_isin).  A section holds the cells of the    *)
(* columns the model carries; row is the label of stock_row.iloc[0], whose *)
(* remaining cells fill the other keys of the section.                     *)
(***************************************************************************)
get_stock_details(t, ticker_or_isin) ==
    IF empty(t) THEN NoData
    ELSE LET stock_row == lookup(t, ticker_or_isin)
         IN IF stock_row = <<>>
            THEN [error |-> <<"Stock not found: ", ticker_or_isin>>]
            ELSE LET row == t[stock_row[1]]
                 IN [identifiers |-> [ticker |-> row["Ticker"], isin |-> row["ISIN"],
                                      sector |-> row["Sector"], industry |-> row["Industry"]],
                     price_performance |->
                         [ytd_performance |-> row["Year to date performance"]],
                     valuation_metrics |-> [long_term_pe |-> row["Long Term PE"],
                                            valuation_rating |-> row["Valuation rating"]],
                     financial_metrics |-> [row |-> stock_row[1]],
                     growth_trends |-> [row |-> stock_row[1]],
                     ratings |-> [stars |-> row["Stars"],
                                  global_evaluation |-> row["Global Evaluation"]],
                     dividend_info |-> [row |-> stock_row[1]]]

(***************************************************************************)
(* get_industry_overview(industry_name)                                    *)
(***************************************************************************)
RECURSIVE sum_notna(_, _)
sum_notna(frame, key) ==
    IF frame = <<>> THEN 0
    ELSE (IF notna(key[Head(frame)]) THEN key[Head(frame)] ELSE 0)
         + sum_notna(Tail(frame), key)

\* Series.mean(): the mean of the non-missing cells, kept as sum and count;
\* with count = 0 the mean is NaN.
mean(frame, key) ==
    [sum |-> sum_notna(frame, key),
     count |-> Cardinality({l \in Range(frame) : notna(key[l])})]

\* Series.value_counts().to_dict(): the count of each non-missing value.
value_counts(t, frame, col) ==
    [v \in {t[l][col] : l \in {x \in Range(frame) : notna_str(t[x][col])}} |->
        Cardinality({l \in Range(frame) : t[l][col] = v})]

TopPerformers == 3

get_industry_overview(t, industry_name) ==
    IF empty(t) THEN {NoData}
    ELSE IF str_contains_raises(t, "Industry", industry_name)
    THEN {[error |-> str_contains_error(t, "Industry", industry_name)]}
    ELSE LET industry_df ==
                 BoolIndex(AllRows(t), str_contains(t, AllRows(t), "Industry", industry_name))
         IN IF industry_df = <<>>
            THEN {[error |-> <<"No stocks found for industry: ", industry_name>>]}
            ELSE {[industry_name |-> industry_name,
                   total_stocks |-> Len(industry_df),
                   average_stars |-> mean(industry_df, Column(t, "Stars")),
                   average_ytd_performance |->
                       mean(industry_df, Column(t, "Year to date performance")),
                   average_pe_ratio |-> mean(industry_df, Column(t, "Long Term PE")),
                   top_performers |-> top,
                   evaluation_distribution |->
                       value_counts(t, industry_df, "Global Evaluation"),
                   valuation_distribution |->
                       value_counts(t, industry_df, "Valuation rating")] :
                     top \in nlargest(TopPerformers, industry_df, Column(t, "Stars"))}

(***************************************************************************)
(* get_available_industries() / get_available_sectors()                    *)
(***************************************************************************)
get_available_industries(t) == IF empty(t) THEN <<>> ELSE unique(t, "Industry")
get_available_sectors(t) == IF empty(t) THEN <<>> ELSE unique(t, "Sector")

(***************************************************************************)
(* The dispatcher (openai_functions.py).                                   *)
(***************************************************************************)
\* The names of the schemas get_function_schemas() hands to the model.
FUNCTION_SCHEMAS ==
    <<"get_top_stocks_by_stars", "filter_stocks_by_industry", "filter_stocks_by_sector",
      "get_stock_details", "compare_stocks_performance", "get_industry_overview",
      "search_stocks_by_criteria", "get_available_industries", "get_available_sectors">>

FUNCTION_MAP_without_utilities ==
    <<"get_top_stocks_by_stars", "filter_stocks_by_industry", "filter_stocks_by_sector",
      "get_stock_details", "compare_stocks_performance", "get_industry_overview",
      "search_stocks_by_criteria">>

FUNCTION_MAP ==
    <<"get_top_stocks_by_stars", "filter_stocks_by_industry", "filter_stocks_by_sector",
      "get_stock_details", "compare_stocks_performance", "get_industry_overview",
      "search_stocks_by_criteria", "get_available_industries", "get_available_sectors">>

\* The parameters of each registered callable and the ones without default.
Parameters(name) ==
    CASE name = "get_top_stocks_by_stars" -> {"min_stars", "limit"}
      [] name = "filter_stocks_by_industry" -> {"industry_name", "sort_by", "limit"}
      [] name = "filter_stocks_by_sector" -> {"sector_name", "sort_by", "limit"}
      [] name = "get_stock_details" -> {"ticker_or_isin"}
      [] name = "compare_stocks_performance" -> {"stock_list"}
      [] name = "get_industry_overview" -> {"industry_name"}
      [] name = "search_stocks_by_criteria" -> {"criteria_dict"}
      [] OTHER -> {}

RequiredParameters(name) ==
    CASE name = "filter_stocks_by_industry" -> {"industry_name"}
      [] name = "filter_stocks_by_sector" -> {"sector_name"}
      [] name = "get_stock_details" -> {"ticker_or_isin"}
      [] name = "compare_stocks_performance" -> {"stock_list"}
      [] name = "get_industry_overview" -> {"industry_name"}
      [] name = "search_stocks_by_criteria" -> {"criteria_dict"}
      [] OTHER -> {}

DefaultMinStars == 2
DefaultLimit == 10

\* The value bound to parameter k: the keyword given, else the default.
arg(kw, k, default) == IF k \in DOMAIN kw THEN kw[k] ELSE default

\* function(**kw) for keywords that bind: the values the callable may return.
invoke(t, name, kw) ==
    CASE name = "get_top_stocks_by_stars" ->
             get_top_stocks_by_stars(t, arg(kw, "min_stars", DefaultMinStars),
                                     arg(kw, "limit", DefaultLimit))
      [] name = "filter_stocks_by_industry" ->
             filter_stocks_by_industry(t, kw["industry_name"], arg(kw, "sort_by", "Stars"),
                                       arg(kw, "limit", DefaultLimit))
      [] name = "filter_stocks_by_sector" ->
             filter_stocks_by_sector(t, kw["sector_name"],
                                     arg(kw, "sort_by", "Global Evaluation"),
                                     arg(kw, "limit", DefaultLimit))
      [] name = "get_stock_details" -> {get_stock_details(t, kw["ticker_or_isin"])}
      [] name = "compare_stocks_performance" ->
             {compare_stocks_performance(t, kw["stock_list"])}
      [] name = "get_industry_overview" -> get_industry_overview(t, kw["industry_name"])
      [] name = "search_stocks_by_criteria" ->
             search_stocks_by_criteria(t, kw["criteria_dict"])
      [] name = "get_available_industries" ->
             {[industries |-> get_available_industries(t)]}
      [] name = "get_available_sectors" -> {[sectors |-> get_available_sectors(t)]}

\* A decoded argument payload: py is the Python type, kw the mapping when the
\* payload is an object.  bool(arguments) is False for None, {} , [] and 0.
NoKeywords == <<>>
PyDict(kw) == [py |-> "dict", truthy |-> DOMAIN kw # {}, kw |-> kw]
PyList(nonempty) == [py |-> "list", truthy |-> nonempty, kw |-> NoKeywords]
PyNone == [py |-> "NoneType", truthy |-> FALSE, kw |-> NoKeywords]
PyInt(nonzero) == [py |-> "int", truthy |-> nonzero, kw |-> NoKeywords]

\* function(**arguments) raises TypeError: arguments is no mapping, names a
\* parameter the callable lacks, or leaves a parameter without default unbound.
binding_fails(name, arguments) ==
    \/ arguments.py # "dict"
    \/ ~(DOMAIN arguments.kw \subseteq Parameters(name))
    \/ ~(RequiredParameters(name) \subseteq DOMAIN arguments.kw)

InvalidArguments(name, arguments) ==
    [error |-> <<"Invalid arguments for function: ", name>>,
     provided_arguments |-> arguments]

ErrorExecuting(name, arguments) ==
    [error |-> <<"Error executing function: ", name>>,
     provided_arguments |-> arguments]

execute_function(t, function_name, arguments) ==
    IF function_name \notin Range(FUNCTION_MAP)
    THEN {[error |-> <<"Function not found: ", function_name>>,
           available_functions |-> FUNCTION_MAP]}
    ELSE IF ~arguments.truthy
    THEN IF RequiredParameters(function_name) = {}
         THEN invoke(t, function_name, NoKeywords)
         ELSE {InvalidArguments(function_name, arguments)}
    ELSE IF function_name = "search_stocks_by_criteria"
    THEN IF arguments.py # "dict"
         THEN {ErrorExecuting(function_name, arguments)}
         ELSE search_stocks_by_criteria(t, arg(arguments.kw, "criteria_dict", NoKeywords))
    ELSE IF binding_fails(function_name, arguments)
         THEN {InvalidArguments(function_name, arguments)}
         ELSE invoke(t, function_name, arguments.kw)

\* The engine operations execute_function runs: the callable of FUNCTION_MAP
\* is entered only when the name is registered and the arguments bind.
engine_invoked(function_name, arguments) ==
    IF function_name \notin Range(FUNCTION_MAP) THEN <<>>
    ELSE IF ~arguments.truthy
    THEN IF RequiredParameters(function_name) = {} THEN <<function_name>> ELSE <<>>
    ELSE IF function_name = "search_stocks_by_criteria"
    THEN IF arguments.py # "dict" THEN <<>> ELSE <<function_name>>
    ELSE IF binding_fails(function_name, arguments) THEN <<>> ELSE <<function_name>>

(***************************************************************************)
(* JSON.  An argument payload is the text the model sent; json_loads gives *)
(* what json.loads makes of it.  The texts tried:                          *)
(***************************************************************************)
ArgumentTexts ==
    {"", "{}", "null", "[]", "[1, 2]", "5", "{bad",
     "{'limit': 2}",
     "{\"limit\": 2}",
     "{\"min_stars\": 9, \"limit\": 0}",
     "{\"bogus\": 1}",
     "{\"industry_name\": \"b\"}",
     "{\"industry_name\": \"(\", \"sort_by\": \"Global Evaluation\"}",
     "{\"sector_name\": \"b\", \"limit\": 1}",
     "{\"ticker_or_isin\": \"A\"}",
     "{\"stock_list\": [\"A\", \"Z\"]}",
     "{\"criteria_dict\": {\"min_stars\": 3}}",
     "{\"min_stars\": 3}"}

\* json.loads raises JSONDecodeError on these.
json_undecodable(text) == text \in {"{bad", "{'limit': 2}"}

json_loads(text) ==
    CASE text = "{}" -> PyDict(NoKeywords)
      [] text = "null" -> PyNone
      [] text = "[]" -> PyList(FALSE)
      [] text = "[1, 2]" -> PyList(TRUE)
      [] text = "5" -> PyInt(TRUE)
      [] text = "{\"limit\": 2}" -> PyDict([limit |-> 2])
      [] text = "{\"min_stars\": 9, \"limit\": 0}" -> PyDict([min_stars |-> 9, limit |-> 0])
      [] text = "{\"bogus\": 1}" -> PyDict([bogus |-> 1])
      [] text = "{\"industry_name\": \"b\"}" -> PyDict([industry_name |-> <<"b">>])
      [] text = "{\"industry_name\": \"(\", \"sort_by\": \"Global Evaluation\"}" ->
             PyDict([industry_name |-> <<"(">>, sort_by |-> "Global Evaluation"])
      [] text = "{\"sector_name\": \"b\", \"limit\": 1}" ->
             PyDict([sector_name |-> <<"b">>, limit |-> 1])
      [] text = "{\"ticker_or_isin\": \"A\"}" -> PyDict([ticker_or_isin |-> "A"])
      [] text = "{\"stock_list\": [\"A\", \"Z\"]}" -> PyDict([stock_list |-> <<"A", "Z">>])
      [] text = "{\"criteria_dict\": {\"min_stars\": 3}}" ->
             PyDict([criteria_dict |-> [min_stars |-> 3]])
      [] text = "{\"min_stars\": 3}" -> PyDict([min_stars |-> 3])

\* The result holds a numpy.int64: a Stars cell taken through iloc[0] of a
\* frame whose Stars column has no missing cell (dtype int64).  json.dumps
\* cannot encode it by itself and hands it to default.
has_numpy_int(t, res) ==
    /\ \A l \in Labels(t) : notna(t[l]["Stars"])
    /\ \/ "ratings" \in DOMAIN res
       \/ ("comparison" \in DOMAIN res /\ res.comparison # <<>>)

\* json.dumps(res, default=str) / json.dumps(res): raises TypeError
\* when a value is not encodable and no default is given.
json_dumps_raises(t, res, default_str) == ~default_str /\ has_numpy_int(t, res)

\* The text json.dumps writes: a JSON object with the members of res; a
\* numpy.int64 is written as the string str() gives, a NaN as the token NaN.
json_dumps(t, res, default_str) ==
    [json |-> "object", members |-> res,
     int64_as_string |-> default_str /\ has_numpy_int(t, res)]

\* The token json.dumps writes for a mean (a float): the number, or NaN when
\* the mean is undefined (allow_nan is left True; default is not consulted
\* for a float).
json_float_token(m) == IF m.count = 0 THEN "NaN" ELSE "number"

\* What json.loads makes of a text json_dumps wrote (Python's decoder reads
\* the token NaN as float nan).
json_loads_result(text) ==
    [value |-> text.members, int64_as_string |-> text.int64_as_string]

(***************************************************************************)
(* process_openai_function_call(function_call)                             *)
(***************************************************************************)
Returns(text) == [returned |-> TRUE, value |-> text]
Raises(e) == [returned |-> FALSE, value |-> e]

process_catches_type_errors_only(exception) == exception = "TypeError"

\* except json.JSONDecodeError / except Exception: every exception raised in
\* the try block is caught by one of the two handlers.
process_catches(exception) == TRUE

process_openai_function_call(t, name, arguments_str) ==
    IF arguments_str # "" /\ json_undecodable(arguments_str)
    THEN IF process_catches("JSONDecodeError")
         THEN {Returns(json_dumps(t, [error |-> <<"Invalid JSON in function arguments">>,
                                      raw_arguments |-> arguments_str], FALSE))}
         ELSE {Raises("JSONDecodeError")}
    ELSE LET arguments == IF arguments_str = "" THEN PyDict(NoKeywords)
                          ELSE json_loads(arguments_str)
         IN {IF json_dumps_raises(t, r, TRUE)
             THEN IF process_catches("TypeError")
                  THEN Returns(json_dumps(t,
                           [error |-> <<"Error processing function call">>,
                            function_call |-> [name |-> name, arguments |-> arguments_str]],
                           FALSE))
                  ELSE Raises("TypeError")
             ELSE Returns(json_dumps(t, r, TRUE)) :
                r \in execute_function(t, name, arguments)}

\* The engine operations process_openai_function_call runs: none when the
\* payload does not decode, since execute_function is then never reached.
process_invoked(name, arguments_str) ==
    IF arguments_str # "" /\ json_undecodable(arguments_str) THEN <<>>
    ELSE engine_invoked(name, IF arguments_str = "" THEN PyDict(NoKeywords)
                              ELSE json_loads(arguments_str))

(***************************************************************************)
(* StockChatHandler (chat_handler.py).  get_stock_recommendation runs from *)
(* pc = "START" to pc = "idle"; the two chat.completions.create calls are  *)
(* answered by the environment.                                            *)
(***************************************************************************)
HistoryWindow == 6

FallbackMessage ==
    "I'm sorry, I encountered an error while processing your request. Please try again."

Turn(role, content) == [role |-> role, content |-> content]

last_messages_unbounded(history) == history

\* self.conversation_history[-6:]
last_messages(history) ==
    IF Len(history) <= HistoryWindow THEN history
    ELSE SubSeq(history, Len(history) - HistoryWindow + 1, Len(history))

\* messages = [system, user] and then messages.extend(history[-6:])
build_messages(history, user_query) ==
    <<Turn("system", "system_message"), Turn("user", user_query)>> \o last_messages(history)

NoFunctionCall == [requested |-> FALSE, name |-> "", arguments |-> ""]
FunctionCall(name, arguments) == [requested |-> TRUE, name |-> name, arguments |-> arguments]

follow_up_messages_summarised(messages, function_call, function_result) ==
    messages \o <<[role |-> "assistant", content |-> "None", function_call |-> function_call],
                  [role |-> "function", name |-> function_call.name,
                   content |-> [json |-> "summary"]]>>

\* follow_up_messages = messages + [the assistant's request, the function
\* turn whose content is the dispatcher's text]
follow_up_messages_for(messages, function_call, function_result) ==
    messages \o <<[role |-> "assistant", content |-> "None", function_call |-> function_call],
                  [role |-> "function", name |-> function_call.name,
                   content |-> function_result]>>

history_update_answer_only(history, user_query, response) ==
    Append(history, Turn("assistant", response))

\* The two appends that end a successful call.
history_update(history, user_query, response) ==
    Append(Append(history, Turn("user", user_query)), Turn("assistant", response))

try_block_after_first_call ==
    {"TOOL_REQUESTED", "FOLLOWUP_MODEL_TURN", "DIRECT_ANSWER"}

\* The positions of get_stock_recommendation inside its try block.
try_block ==
    {"START", "MODEL_TURN", "TOOL_REQUESTED", "FOLLOWUP_MODEL_TURN", "DIRECT_ANSWER"}

\* The locals of a call that has not started.
NoTurn(n) ==
    [n |-> n, user_query |-> "", history_before |-> <<>>, messages |-> <<>>,
     function_call |-> NoFunctionCall, function_calls |-> <<>>,
     follow_up_messages |-> <<>>, response |-> "None", fault |-> "none",
     functions |-> <<>>, model_calls |-> 0, dispatcher_calls |-> 0]

(***************************************************************************)
(* Tables and arguments tried.                                             *)
(***************************************************************************)
Row(ticker, isin, stars, sector, industry, evaluation, ytd, pe, valuation) ==
    ("Ticker" :> ticker) @@ ("ISIN" :> isin) @@ ("Stars" :> stars)
    @@ ("Sector" :> sector) @@ ("Industry" :> industry)
    @@ ("Global Evaluation" :> evaluation)
    @@ ("Year to date performance" :> ytd) @@ ("Long Term PE" :> pe)
    @@ ("Valuation rating" :> valuation)

TablesOf(rows) == UNION {[1..n -> rows] : n \in 0..MaxRows}

StarCells == {NaN, 1, 3, 4}
MinStarsArgs == {0, 2, 3, 4, 5}
LimitArgs == (0 - 1)..MaxLimit

StarRows ==
    {Row("T", "I", s, <<"o">>, <<"o">>, <<"neutral">>, 0, 10, <<"u">>) : s \in StarCells}
StarTables == UNION {[1..n -> StarRows] : n \in 0..MaxStarRows}

InitCommon ==
    /\ call = NoCall
    /\ result = NoResult
    /\ conversation_history = <<>>
    /\ pc = "idle"
    /\ turn = NoTurn(0)
    /\ ret = NoResult

\* One entry point is run per loaded snapshot: the engine keeps nothing
\* between calls (every entry point starts with load_stock_data()).
Fresh == call = NoCall

TopStocksByStars ==
    /\ Fresh
    /\ \E m \in MinStarsArgs, k \in LimitArgs :
         /\ call' = [fn |-> "get_top_stocks_by_stars", min_stars |-> m, limit |-> k]
         /\ result' \in get_top_stocks_by_stars(df, m, k)
    /\ UNCHANGED <<df, conversation_history, pc, turn, ret>>

\* Text cells and names for the industry / sector filters.  A row carries
\* the same cell in Industry and in Sector: each filter reads one of the two.
NameCells == {<<"a", "b">>, <<"B", ".">>, NaNStr}
NameArgs == {<<"b">>, <<"c">>, <<".">>, <<"(">>}
EvalCells == {<<"positive">>, <<"meh">>, <<"negative">>}
SortArgs == {"Stars", "Global Evaluation", "Year to date performance"}
FilterLimitArgs == 1..MaxLimit

FilterRows ==
    {Row("T", "I", 3, n, n, e, 0, 10, <<"u">>) : n \in NameCells, e \in EvalCells}

FilterByIndustry ==
    /\ Fresh
    /\ \E name \in NameArgs, s \in SortArgs, k \in FilterLimitArgs :
         /\ call' = [fn |-> "filter_stocks_by_industry", column |-> "Industry",
                     name |-> name, sort_by |-> s, limit |-> k]
         /\ result' \in filter_stocks_by_industry(df, name, s, k)
    /\ UNCHANGED <<df, conversation_history, pc, turn, ret>>

FilterBySector ==
    /\ Fresh
    /\ \E name \in NameArgs, s \in SortArgs, k \in FilterLimitArgs :
         /\ call' = [fn |-> "filter_stocks_by_sector", column |-> "Sector",
                     name |-> name, sort_by |-> s, limit |-> k]
         /\ result' \in filter_stocks_by_sector(df, name, s, k)
    /\ UNCHANGED <<df, conversation_history, pc, turn, ret>>

InitFilter == df \in TablesOf(FilterRows) /\ InitCommon
NextFilter == FilterByIndustry \/ FilterBySector
SpecFilter == InitFilter /\ [][NextFilter]_vars

\* Tables and id lists for compare_stocks_performance.
IdRows ==
    {Row(tk, isin, 3, <<"o">>, <<"o">>, <<"neutral">>, 0, 10, <<"u">>) :
        tk \in {"A", "B", "NaN"}, isin \in {"X", "A"}}
IdArgs == {"A", "B", "X", "Z"}
IdLists == UNION {[1..n -> IdArgs] : n \in 0..MaxIds}

CompareStocks ==
    /\ Fresh
    /\ \E ids \in IdLists :
         /\ call' = [fn |-> "compare_stocks_performance", stock_list |-> ids]
         /\ result' = compare_stocks_performance(df, ids)
    /\ UNCHANGED <<df, conversation_history, pc, turn, ret>>

InitCompare == df \in TablesOf(IdRows) /\ InitCommon
NextCompare == CompareStocks
SpecCompare == InitCompare /\ [][NextCompare]_vars

\* get_stock_details on the tables of ids; "a" differs from the ticker "A"
\* by case only.
DetailArgs == IdArgs \cup {"a"}

StockDetails ==
    /\ Fresh
    /\ \E id \in DetailArgs :
         /\ call' = [fn |-> "get_stock_details", ticker_or_isin |-> id]
         /\ result' = get_stock_details(df, id)
    /\ UNCHANGED <<df, conversation_history, pc, turn, ret>>

InitDetails == df \in TablesOf(IdRows) /\ InitCommon
NextDetails == StockDetails
SpecDetails == InitDetails /\ [][NextDetails]_vars

\* Tables and criteria for search_stocks_by_criteria.
MaxSearchRows == 2

SearchRows ==
    {Row("T", "I", 4, <<"b">>, <<"a", "b">>, <<"positive">>, 10, 5, <<"u">>),
     Row("T", "I", 3, <<"B">>, <<"B">>, <<"very", "positive">>, 5, 5, <<"o", "u">>),
     Row("T", "I", 1, <<"a">>, <<"a">>, <<"negative">>, 0, 20, <<"o">>),
     Row("T", "I", NaN, NaNStr, NaNStr, NaNStr, NaN, NaN, NaNStr)}

SearchTables == UNION {[1..n -> SearchRows] : n \in 0..MaxSearchRows}

\* The value tried for a criterion; the second variant makes the sector
\* pattern one that does not compile and the industry pattern a wildcard.
CriterionValue(k, variant) ==
    CASE k = "min_stars" -> 3
      [] k = "max_stars" -> 3
      [] k = "min_ytd_performance" -> 5
      [] k = "max_pe_ratio" -> 5
      [] k = "valuation_rating" -> <<"U">>
      [] k = "global_evaluation" -> <<"positive">>
      [] k = "sector" -> IF variant = 1 THEN <<"b">> ELSE <<"(">>
      [] k = "industry" -> IF variant = 1 THEN <<"b">> ELSE <<".">>

Variants == {1, 2}
VariantsOf(k) == IF k \in {"sector", "industry"} THEN Variants ELSE {1}
CriteriaOver(K, variant) == [k \in K |-> CriterionValue(k, variant)]
WithLimit(c, n) == c @@ ("limit" :> n)

CriteriaArgs ==
    {CriteriaOver(K, v) : K \in SUBSET FilterKeys, v \in Variants}
    \cup {WithLimit(CriteriaOver(K, v), 1) : K \in SUBSET FilterKeys, v \in Variants}

SearchStocks ==
    /\ Fresh
    /\ \E c \in CriteriaArgs :
         /\ call' = [fn |-> "search_stocks_by_criteria", criteria_dict |-> c]
         /\ result' \in search_stocks_by_criteria(df, c)
    /\ UNCHANGED <<df, conversation_history, pc, turn, ret>>

InitSearch == df \in SearchTables /\ InitCommon
NextSearch == SearchStocks
SpecSearch == InitSearch /\ [][NextSearch]_vars

\* Tool calls handed to the dispatcher.
ToolNames == Range(FUNCTION_MAP) \cup {"get_stock_price"}

DispatchRows ==
    {Row("A", "X", 4, <<"b">>, <<"a", "b">>, <<"positive">>, 10, 5, <<"u">>),
     Row("B", "A", 3, <<"B">>, <<"B">>, <<"meh">>, 5, 5, <<"o">>),
     Row("NaN", "Y", NaN, NaNStr, NaNStr, NaNStr, NaN, NaN, NaNStr),
     Row("C", "Z", NaN, <<"b">>, <<"b">>, <<"neutral">>, NaN, NaN, <<"u">>)}

MaxDispatchRows == 2
DispatchTables == UNION {[1..n -> DispatchRows] : n \in 0..MaxDispatchRows}

ProcessFunctionCall ==
    /\ Fresh
    /\ \E name \in ToolNames, text \in ArgumentTexts :
         /\ call' = [fn |-> "process_openai_function_call", name |-> name,
                     arguments |-> text]
         /\ \E out \in process_openai_function_call(df, name, text) :
              result' = [returned |-> out.returned, value |-> out.value,
                         invoked |-> process_invoked(name, text)]
    /\ UNCHANGED <<df, conversation_history, pc, turn, ret>>

\* execute_function(function_name, arguments) with the payload text decoded.
DecodableTexts == {text \in ArgumentTexts : text # "" /\ ~json_undecodable(text)}

ExecuteFunction ==
    /\ Fresh
    /\ \E name \in ToolNames, text \in DecodableTexts :
         /\ call' = [fn |-> "execute_function", function_name |-> name,
                     arguments |-> text]
         /\ \E r \in execute_function(df, name, json_loads(text)) :
              result' = [value |-> r, invoked |-> engine_invoked(name, json_loads(text))]
    /\ UNCHANGED <<df, conversation_history, pc, turn, ret>>

InitDispatch == df \in DispatchTables /\ InitCommon
NextDispatch == ProcessFunctionCall \/ ExecuteFunction
SpecDispatch == InitDispatch /\ [][NextDispatch]_vars

\* The seven engine operations, each on the empty table and on loaded ones.
IndustryOverview ==
    /\ Fresh
    /\ \E name \in NameArgs :
         /\ call' = [fn |-> "get_industry_overview", industry_name |-> name]
         /\ result' \in get_industry_overview(df, name)
    /\ UNCHANGED <<df, conversation_history, pc, turn, ret>>

InitEngine == df \in DispatchTables /\ InitCommon
NextEngine ==
    \/ TopStocksByStars
    \/ FilterByIndustry
    \/ FilterBySector
    \/ StockDetails
    \/ CompareStocks
    \/ IndustryOverview
    \/ SearchStocks
SpecEngine == InitEngine /\ [][NextEngine]_vars

\* The chat: user queries, the model's answers and the tools it asks for.
Queries == {"q1", "q2"}
Answers == {"a1", "a2"}
Faults == {"APIConnectionError"}
ToolRequests ==
    {FunctionCall("get_top_stocks_by_stars", "{\"limit\": 2}"),
     FunctionCall("compare_stocks_performance", "{\"stock_list\": [\"A\", \"Z\"]}"),
     FunctionCall("get_stock_price", "{}"),
     FunctionCall("get_stock_details", "{bad")}
ChatTables == {<<>>, [i \in 1..2 |-> IF i = 1
    THEN Row("A", "X", 4, <<"b">>, <<"a", "b">>, <<"positive">>, 10, 5, <<"u">>)
    ELSE Row("B", "A", 3, <<"B">>, <<"B">>, <<"meh">>, 5, 5, <<"o">>)]}

\* get_stock_recommendation(user_query) is called.
GetStockRecommendation ==
    /\ pc = "idle"
    /\ turn.n < MaxTurns
    /\ \E q \in Queries :
         turn' = [NoTurn(turn.n + 1) EXCEPT !.user_query = q,
                                            !.history_before = conversation_history]
    /\ pc' = "START"
    /\ ret' = NoResult
    /\ UNCHANGED <<df, call, result, conversation_history>>

\* Lines 46-56: the system message and the message list.
BuildMessages ==
    /\ pc = "START"
    /\ turn' = [turn EXCEPT !.messages = build_messages(conversation_history, turn.user_query)]
    /\ pc' = "MODEL_TURN"
    /\ UNCHANGED <<df, call, result, conversation_history, ret>>

\* Lines 59-73: the first completion is plain text.
ModelAnswers ==
    /\ pc = "MODEL_TURN"
    /\ \E a \in Answers : turn' = [turn EXCEPT !.response = a, !.functions = FUNCTION_SCHEMAS,
                                           !.model_calls = @ + 1]
    /\ pc' = "DIRECT_ANSWER"
    /\ UNCHANGED <<df, call, result, conversation_history, ret>>

\* Lines 59-76: the first completion asks for a tool (its content is None).
ModelRequestsTool ==
    /\ pc = "MODEL_TURN"
    /\ \E f \in ToolRequests : turn' = [turn EXCEPT !.function_call = f, !.functions = FUNCTION_SCHEMAS,
                                                !.model_calls = @ + 1]
    /\ pc' = "TOOL_REQUESTED"
    /\ UNCHANGED <<df, call, result, conversation_history, ret>>

\* Lines 77-92: the dispatcher runs, its text is decoded into function_calls
\* and appended, as a function turn, to the messages of the follow-up.
ToolExecuted ==
    /\ pc = "TOOL_REQUESTED"
    /\ \E out \in process_openai_function_call(df, turn.function_call.name,
                                               turn.function_call.arguments) :
         /\ out.returned
         /\ turn' = [turn EXCEPT
                !.dispatcher_calls = @ + 1,
                !.function_calls = Append(@,
                    [function |-> turn.function_call.name,
                     arguments |-> turn.function_call.arguments,
                     result |-> json_loads_result(out.value)]),
                !.follow_up_messages =
                    follow_up_messages_for(turn.messages, turn.function_call, out.value)]
    /\ pc' = "FOLLOWUP_MODEL_TURN"
    /\ UNCHANGED <<df, call, result, conversation_history, ret>>

FollowUpRequestsTool ==
    /\ pc = "FOLLOWUP_MODEL_TURN"
    /\ turn.dispatcher_calls < 2
    /\ turn' = [turn EXCEPT !.model_calls = @ + 1]
    /\ pc' = "TOOL_REQUESTED"
    /\ UNCHANGED <<df, call, result, conversation_history, ret>>

\* Lines 94-101: the follow-up completion becomes the response.
FollowUpAnswers ==
    /\ pc = "FOLLOWUP_MODEL_TURN"
    /\ \E a \in Answers : turn' = [turn EXCEPT !.response = a, !.model_calls = @ + 1]
    /\ pc' = "DIRECT_ANSWER"
    /\ UNCHANGED <<df, call, result, conversation_history, ret>>

\* Lines 103-107: the history is updated and the result returned.
Complete ==
    /\ pc = "DIRECT_ANSWER"
    /\ conversation_history' =
           history_update(conversation_history, turn.user_query, turn.response)
    /\ ret' = [response |-> turn.response, function_calls |-> turn.function_calls,
               recommendations |-> <<>>]
    /\ pc' = "idle"
    /\ UNCHANGED <<df, call, result, turn>>

\* A statement of the call raises (the API call fails, memory runs out, ...):
\* inside the try block lines 109-114 return the fallback; elsewhere the
\* exception leaves the call.
Fault ==
    /\ pc \in {"START", "MODEL_TURN", "TOOL_REQUESTED", "FOLLOWUP_MODEL_TURN"}
    /\ \E e \in Faults :
         /\ turn' = [turn EXCEPT !.fault = e]
         /\ ret' = IF pc \in try_block
                   THEN [error |-> e, response |-> FallbackMessage]
                   ELSE [raised |-> e]
    /\ pc' = "idle"
    /\ UNCHANGED <<df, call, result, conversation_history>>

\* clear_history()
ClearHistory ==
    /\ pc = "idle"
    /\ conversation_history # <<>>
    /\ conversation_history' = <<>>
    /\ turn' = NoTurn(turn.n)
    /\ ret' = NoResult
    /\ UNCHANGED <<df, call, result, pc>>

InitChat == df \in ChatTables /\ InitCommon
NextChat ==
    \/ GetStockRecommendation
    \/ BuildMessages
    \/ ModelAnswers
    \/ ModelRequestsTool
    \/ ToolExecuted
    \/ FollowUpAnswers
    \/ Complete
    \/ Fault
    \/ ClearHistory
SpecChat == InitChat /\ [][NextChat]_vars

\* The chat of a handler that has already answered up to MaxPastTurns
\* queries: its history holds a user and an assistant turn for each.
PastContents == <<"h1", "h2", "h3", "h4", "h5", "h6", "h7", "h8", "h9", "h10", "h11", "h12">>
PastHistory(n) ==
    [i \in 1..(2 * n) |-> Turn(IF i % 2 = 1 THEN "user" ELSE "assistant", PastContents[i])]

InitChatLong ==
    /\ df = <<>>
    /\ call = NoCall
    /\ result = NoResult
    /\ \E n \in 0..MaxPastTurns : conversation_history = PastHistory(n)
    /\ pc = "idle"
    /\ turn = NoTurn(0)
    /\ ret = NoResult
SpecChatLong == InitChatLong /\ [][NextChat]_vars

\* A call that has started runs on: each statement of get_stock_recommendation
\* is executed in turn and each model call returns or raises.
CallStep ==
    \/ BuildMessages
    \/ ModelAnswers
    \/ ModelRequestsTool
    \/ ToolExecuted
    \/ FollowUpAnswers
    \/ Complete
    \/ Fault
SpecChatFair == SpecChat /\ WF_vars(CallStep)

InitStars == df \in StarTables /\ InitCommon
NextStars == TopStocksByStars
SpecStars == InitStars /\ [][NextStars]_vars

(***************************************************************************)
(* Start-up.  DATASET_PATH is read from the environment when a module is   *)
(* imported; df is the table the CSV file at that location holds.          *)
(***************************************************************************)
\* os.getenv("DATASET_PATH"): None when the variable is not set.
Environments == {"None", "data/"}
Modules == {"data_processor", "openai_functions", "chat_handler", "pdf_processor"}

\* Importing a module runs its top-level statements.  data_processor keeps
\* os.getenv("DATASET_PATH") as it is; pdf_processor concatenates it with a
\* string, which raises TypeError for None; openai_functions and chat_handler
\* import data_processor and read no location themselves.
import_module(m, env) ==
    IF m = "pdf_processor" /\ env = "None"
    THEN [imported |-> FALSE, raised |-> "TypeError"]
    ELSE [imported |-> TRUE]

\* load_stock_data(): DATASET_PATH + CSV_FILE raises TypeError for None,
\* inside the try block, and the handler returns an empty frame.
load_stock_data(env, file) == IF env = "None" THEN <<>> ELSE file

\* One call of each engine operation, with arguments that bind.
StartupCalls ==
    {<<"get_top_stocks_by_stars", [limit |-> 2]>>,
     <<"filter_stocks_by_industry", [industry_name |-> <<"b">>]>>,
     <<"filter_stocks_by_sector", [sector_name |-> <<"b">>, limit |-> 1]>>,
     <<"get_stock_details", [ticker_or_isin |-> "A"]>>,
     <<"compare_stocks_performance", [stock_list |-> <<"A", "Z">>]>>,
     <<"get_industry_overview", [industry_name |-> <<"b">>]>>,
     <<"search_stocks_by_criteria", [criteria_dict |-> [min_stars |-> 3]]>>}

ImportModule ==
    /\ Fresh
    /\ \E m \in Modules, env \in Environments :
         /\ call' = [fn |-> "import", module |-> m, DATASET_PATH |-> env]
         /\ result' = import_module(m, env)
    /\ UNCHANGED <<df, conversation_history, pc, turn, ret>>

EngineCall ==
    /\ Fresh
    /\ \E c \in StartupCalls, env \in Environments :
         /\ call' = [fn |-> c[1], kw |-> c[2], DATASET_PATH |-> env]
         /\ result' \in invoke(load_stock_data(env, df), c[1], c[2])
    /\ UNCHANGED <<df, conversation_history, pc, turn, ret>>

InitStartup == df \in DispatchTables /\ InitCommon
NextStartup == ImportModule \/ EngineCall
SpecStartup == InitStartup /\ [][NextStartup]_vars

(***************************************************************************)
(* Claims about get_top_stocks_by_stars.                                   *)
(***************************************************************************)
IsTopCall == call.fn = "get_top_stocks_by_stars"
Stars(l) == df[l]["Stars"]

\* C1: every record returned by get_top_stocks_by_stars(min_stars, k), k >= 0,
\* has stars >= min_stars, the list is sorted non-increasing by stars, and
\* it holds at most k records.
C1_TopStocksBoundedSorted ==
    (IsTopCall /\ call.limit >= 0) =>
        /\ \A i \in 1..Len(result.stocks) : Stars(result.stocks[i]) >= call.min_stars
        /\ \A i \in 1..(Len(result.stocks) - 1) :
               Stars(result.stocks[i]) >= Stars(result.stocks[i + 1])
        /\ Len(result.stocks) <= call.limit

\* A call that cuts: rows below the threshold exist, more rows pass the
\* threshold than the limit admits, and the list returned holds two ratings.
C1_Witness ==
    /\ IsTopCall
    /\ "total_found" \in DOMAIN result
    /\ call.limit >= 2
    /\ Len(result.stocks) = call.limit
    /\ result.total_found > call.limit
    /\ result.total_found < Len(df)
    /\ Stars(result.stocks[1]) > Stars(result.stocks[Len(result.stocks)])

\* C2: records of equal star rating are returned in table order, and of the
\* rows that tie at the cut-off rating the ones kept come first in the table.
C2_StableTieBreak ==
    (IsTopCall /\ "total_found" \in DOMAIN result) =>
        /\ \A i, j \in 1..Len(result.stocks) :
               (i < j /\ Stars(result.stocks[i]) = Stars(result.stocks[j]))
                   => result.stocks[i] < result.stocks[j]
        /\ \A i \in 1..Len(result.stocks) : \A l \in Labels(df) :
               (/\ Ge(Stars(l), call.min_stars)
                /\ l \notin Range(result.stocks)
                /\ Stars(l) = Stars(result.stocks[i]))
                   => result.stocks[i] < l

(***************************************************************************)
(* Claims about filter_stocks_by_industry and filter_stocks_by_sector.     *)
(***************************************************************************)
IsFilterCall == call.fn \in {"filter_stocks_by_industry", "filter_stocks_by_sector"}
AvailableKey ==
    IF call.fn = "filter_stocks_by_industry" THEN "available_industries"
    ELSE "available_sectors"

\* No row's cell holds the name as a substring, ignoring case.
NoRowMatches ==
    \A l \in Labels(df) :
        ~(notna_str(df[l][call.column]) /\ is_substring_nocase(call.name, df[l][call.column]))

\* C3: on a non-empty table, a name that matches no row gives an error result
\* with an empty stocks list and, as available_industries (available_sectors),
\* exactly the distinct industry (sector) values of the table.
C3_NoMatchListsAlternatives ==
    (IsFilterCall /\ ~empty(df) /\ NoRowMatches) =>
        /\ "error" \in DOMAIN result
        /\ result.stocks = <<>>
        /\ AvailableKey \in DOMAIN result
        /\ Range(result[AvailableKey]) = {df[l][call.column] : l \in Labels(df)}

\* The cell of row l is one of the seven scale strings; its place (0..6).
OnScale(l) == \E i \in 1..Len(eval_order) : eval_order[i] = df[l]["Global Evaluation"]
ScaleRank(l) == (CHOOSE i \in 1..Len(eval_order) : eval_order[i] = df[l]["Global Evaluation"]) - 1
IsEvalSortCall == IsFilterCall /\ call.sort_by = "Global Evaluation"
MatchingRows == str_contains(df, AllRows(df), call.column, call.name)

\* C10: sorting by "Global Evaluation", a matching row whose evaluation is not
\* on the scale is ranked 3: it comes after every returned row ranked 4..6 and
\* before every returned row ranked 0..2, the call is no error, and the row is
\* left out only when the limit is filled by rows ranked 3 or more.
C10_UnknownEvaluationIsNeutral ==
    (/\ IsEvalSortCall
     /\ ~empty(df)
     /\ ~str_contains_raises(df, call.column, call.name)
     /\ \E l \in MatchingRows : ~OnScale(l)) =>
        /\ "error" \notin DOMAIN result
        /\ \A i, j \in 1..Len(result.stocks) :
               (~OnScale(result.stocks[i]) /\ OnScale(result.stocks[j])) =>
                   /\ ScaleRank(result.stocks[j]) \in 4..6 => j < i
                   /\ ScaleRank(result.stocks[j]) \in 0..2 => i < j
        /\ \A l \in MatchingRows :
               (~OnScale(l) /\ l \notin Range(result.stocks)) =>
                   /\ Len(result.stocks) = call.limit
                   /\ \A j \in 1..Len(result.stocks) :
                          OnScale(result.stocks[j]) => ScaleRank(result.stocks[j]) >= 3

\* A row off the scale returned between a positive and a negative row.
C10_Witness ==
    /\ IsEvalSortCall
    /\ "error" \notin DOMAIN result
    /\ Len(result.stocks) = 3
    /\ OnScale(result.stocks[1]) /\ ScaleRank(result.stocks[1]) = 5
    /\ ~OnScale(result.stocks[2])
    /\ OnScale(result.stocks[3]) /\ ScaleRank(result.stocks[3]) = 1

(***************************************************************************)
(* Claims about search_stocks_by_criteria.                                 *)
(***************************************************************************)
IsSearchCall == call.fn = "search_stocks_by_criteria"

\* The results of the search with criterion k added to the criteria of the call.
SearchWith(k, variant) ==
    search_stocks_by_criteria(df, call.criteria_dict @@ (k :> CriterionValue(k, variant)))

IsCompareCall == call.fn = "compare_stocks_performance"
\* Row l carries the id as its Ticker or as its ISIN (no id tried is "NaN").
CarriesId(l, id) == df[l]["Ticker"] = id \/ df[l]["ISIN"] = id
Resolvable(id) == \E l \in Labels(df) : CarriesId(l, id)
Unresolved(ids) == SelectSeq(ids, LAMBDA id : ~Resolvable(id))
Resolved(ids) == SelectSeq(ids, LAMBDA id : Resolvable(id))

\* not_found is the sub-list of the ids no row carries as Ticker or ISIN, and
\* comparison holds one entry per other id, in input order, each a row that
\* carries the id.
PartialSuccess ==
    /\ "not_found" \in DOMAIN result
    /\ "comparison" \in DOMAIN result
    /\ result.not_found = Unresolved(call.stock_list)
    /\ Len(result.comparison) = Len(Resolved(call.stock_list))
    /\ \A i \in 1..Len(result.comparison) :
           CarriesId(result.comparison[i], Resolved(call.stock_list)[i])

\* C5 as stated: for every table and every id list the ids are resolved one
\* by one, the unresolved ones collected in not_found.
C5_CompareEveryTable == IsCompareCall => PartialSuccess

\* C5 amended: the same for every table that has at least one row.
C5_CompareNonEmptyTable == (IsCompareCall /\ ~empty(df)) => PartialSuccess

\* A call with an unresolved id between two resolved ones.
C5_Witness ==
    /\ IsCompareCall
    /\ "not_found" \in DOMAIN result
    /\ Len(call.stock_list) = 3
    /\ Resolvable(call.stock_list[1])
    /\ ~Resolvable(call.stock_list[2])
    /\ Resolvable(call.stock_list[3])
    /\ call.stock_list[1] # call.stock_list[3]
    /\ result.not_found = <<call.stock_list[2]>>
    /\ Len(result.comparison) = 2

(***************************************************************************)
(* Claims about the dispatcher.                                            *)
(***************************************************************************)
IsProcessCall == call.fn = "process_openai_function_call"

\* C6: for every tool name and every argument payload,
\* process_openai_function_call returns, raising nothing, a text that decodes
\* as a JSON object.
C6_AlwaysReturnsJsonObject ==
    IsProcessCall =>
        /\ result.returned
        /\ result.value.json = "object"

\* A call that succeeds with a value json.dumps cannot encode by itself (the
\* numpy.int64 of a compared row) next to an id that was not found.
C6_Witness ==
    /\ IsProcessCall
    /\ result.returned
    /\ result.value.int64_as_string
    /\ "comparison" \in DOMAIN result.value.members
    /\ result.value.members.not_found # <<>>

(***************************************************************************)
(* Claims about get_stock_recommendation.                                  *)
(***************************************************************************)
\* The last get_stock_recommendation call has returned its result / has
\* ended through a fault.
Succeeded == pc = "idle" /\ turn.n > 0 /\ turn.user_query # "" /\ turn.fault = "none"
Failed == pc = "idle" /\ turn.fault # "none"

\* C7: after a successful call the history is its value before the call
\* followed by the user's message and then the final answer, with or without
\* a tool, and the history never holds a function turn.
C7_TwoTurnsAppended ==
    /\ Succeeded =>
           conversation_history = turn.history_before \o
               <<[role |-> "user", content |-> turn.user_query],
                 [role |-> "assistant", content |-> ret.response]>>
    /\ \A i \in 1..Len(conversation_history) :
           conversation_history[i].role \in {"user", "assistant"}

\* A second call, answered through a tool, has returned.
C7_Witness ==
    /\ Succeeded
    /\ turn.history_before # <<>>
    /\ Len(turn.function_calls) = 1
    /\ Len(conversation_history) = 4

\* C8: a fault at any point of the call lets no exception out: the call
\* returns the fallback message as response and the fault's message as error.
C8_FaultGivesFallback ==
    Failed => ret = [error |-> turn.fault, response |-> FallbackMessage]

\* A call that failed in the follow-up model call, after the tool had run.
C8_Witness ==
    /\ Failed
    /\ Len(turn.function_calls) = 1
    /\ "error" \in DOMAIN ret

\* C9: after a call that ended through the error path the history holds a
\* new user turn with the message of that call.
C9_FailedCallKeepsUserTurn ==
    Failed =>
        /\ Len(conversation_history) > Len(turn.history_before)
        /\ conversation_history[Len(conversation_history)] =
               [role |-> "user", content |-> turn.user_query]

(***************************************************************************)
(* Claims about execute_function and the argument payload.                 *)
(***************************************************************************)
IsExecuteCall == call.fn = "execute_function"
RegisteredTools ==
    {"get_top_stocks_by_stars", "filter_stocks_by_industry", "filter_stocks_by_sector",
     "get_stock_details", "compare_stocks_performance", "get_industry_overview",
     "search_stocks_by_criteria", "get_available_industries", "get_available_sectors"}

\* C11: for a tool name outside the registry execute_function runs no engine
\* operation and returns an error whose available_functions lists the nine
\* registered names.
C11_UnknownToolListsRegistry ==
    (IsExecuteCall /\ call.function_name \notin RegisteredTools) =>
        /\ result.invoked = <<>>
        /\ DOMAIN result.value = {"error", "available_functions"}
        /\ Len(result.value.available_functions) = 9
        /\ Range(result.value.available_functions) = RegisteredTools

\* An unregistered name called with a payload that would bind to a real tool.
C11_Witness ==
    /\ IsExecuteCall
    /\ call.function_name = "get_stock_price"
    /\ call.arguments = "{\"limit\": 2}"
    /\ df # <<>>
    /\ "available_functions" \in DOMAIN result.value

\* C12: for a payload text that cannot be deserialized,
\* process_openai_function_call runs no engine operation and returns the
\* parse-error envelope with the raw text unchanged in raw_arguments.
C12_MalformedPayloadKeepsRawText ==
    (IsProcessCall /\ call.arguments \in {"{bad", "{'limit': 2}"}) =>
        /\ result.invoked = <<>>
        /\ result.returned
        /\ DOMAIN result.value.members = {"error", "raw_arguments"}
        /\ result.value.members.error = <<"Invalid JSON in function arguments">>
        /\ result.value.members.raw_arguments = call.arguments

\* A registered tool called on a loaded table with an undecodable payload.
C12_Witness ==
    /\ IsProcessCall
    /\ call.name = "get_top_stocks_by_stars"
    /\ call.arguments = "{'limit': 2}"
    /\ df # <<>>
    /\ "raw_arguments" \in DOMAIN result.value.members
\* C13: get_available_industries and get_available_sectors ignore the
\* payload: whatever it is, the result is the one an empty payload gives.
C13_ZeroArgumentToolsIgnorePayload ==
    (IsExecuteCall /\ call.function_name \in {"get_available_industries",
                                              "get_available_sectors"}) =>
        \E r \in execute_function(df, call.function_name, PyDict(NoKeywords)) :
            result.value = r

\* The payload of the call, decoded, and whether it fails to bind: it is an
\* object that names an argument the tool does not have or lacks one the
\* tool's schema requires (the schemas list the parameters of the callables).
Payload == json_loads(call.arguments)
PayloadDoesNotBind ==
    /\ Payload.py = "dict"
    /\ \/ ~(DOMAIN Payload.kw \subseteq Parameters(call.function_name))
       \/ ~(RequiredParameters(call.function_name) \subseteq DOMAIN Payload.kw)

\* C14: for a registered tool, a payload that does not bind yields the
\* "Invalid arguments" error with the payload attached; no engine operation
\* runs and nothing is raised.
C14_UnboundPayloadIsInvalidArguments ==
    (IsExecuteCall /\ call.function_name \in RegisteredTools /\ PayloadDoesNotBind) =>
        /\ result.invoked = <<>>
        /\ DOMAIN result.value = {"error", "provided_arguments"}
        /\ result.value.error = <<"Invalid arguments for function: ", call.function_name>>
        /\ result.value.provided_arguments = Payload

(***************************************************************************)
(* Claims about the engine on an empty table and about get_stock_details.  *)
(***************************************************************************)
EngineOperations ==
    {"get_top_stocks_by_stars", "filter_stocks_by_industry", "filter_stocks_by_sector",
     "get_stock_details", "compare_stocks_performance", "get_industry_overview",
     "search_stocks_by_criteria"}

\* C15: on an empty table each of the seven engine operations returns, for
\* every argument, a result whose error is "No data available".
C15_EmptyTableIsNoData ==
    (call.fn \in EngineOperations /\ Len(df) = 0) =>
        /\ "error" \in DOMAIN result
        /\ result.error = <<"No data available">>

\* A search with criteria, run on the empty table.
C15_Witness ==
    /\ call.fn = "search_stocks_by_criteria"
    /\ Len(df) = 0
    /\ {"min_stars", "sector"} \subseteq DOMAIN call.criteria_dict
    /\ "error" \in DOMAIN result

IsDetailsCall == call.fn = "get_stock_details"
DetailSections ==
    {"identifiers", "price_performance", "valuation_metrics", "financial_metrics",
     "growth_trends", "ratings", "dividend_info"}
Carriers == {l \in Labels(df) : CarriesId(l, call.ticker_or_isin)}
FirstCarrier == CHOOSE l \in Carriers : \A m \in Carriers : l <= m

\* The first row, in table order, whose Ticker or ISIN is exactly the id,
\* grouped into the seven sections; a not-found error and no section when no
\* row carries the id.
ExactFirstMatch ==
    IF Carriers = {}
    THEN /\ DOMAIN result = {"error"}
         /\ result.error = <<"Stock not found: ", call.ticker_or_isin>>
    ELSE /\ DOMAIN result = DetailSections
         /\ result.financial_metrics.row = FirstCarrier
         /\ result.growth_trends.row = FirstCarrier
         /\ result.dividend_info.row = FirstCarrier
         /\ result.identifiers.ticker = df[FirstCarrier]["Ticker"]
         /\ result.identifiers.isin = df[FirstCarrier]["ISIN"]

\* C20 as stated: get_stock_details(id) matches exactly against Ticker or
\* ISIN, returns the first matching row in the seven sections, and a
\* not-found error with no section when no row matches.
C20_DetailsEveryTable == IsDetailsCall => ExactFirstMatch

\* C20 amended: the same on every table that has at least one row (on the
\* empty table the error is "No data available").
C20_DetailsLoadedTable == (IsDetailsCall /\ Len(df) > 0) => ExactFirstMatch

\* Two rows carry the id, the first as its ISIN and a later one as its
\* Ticker: the first is returned.
C20_Witness ==
    /\ IsDetailsCall
    /\ call.ticker_or_isin = "A"
    /\ Len(df) = 3
    /\ Carriers = {2, 3}
    /\ df[2]["Ticker"] = "B"
    /\ df[3]["Ticker"] = "A"
    /\ result.identifiers.ticker = "B"

(***************************************************************************)
(* Claims about the steps and the messages of get_stock_recommendation.    *)
(***************************************************************************)
\* The model calls answered and the dispatcher invocations made so far in
\* the current call: at most one tool, run only on request and before the
\* one follow-up model call; a returned call made one model call and no
\* dispatcher invocation, or one dispatcher invocation followed by the
\* follow-up model call.
StepsBounded ==
    /\ turn.model_calls <= 2
    /\ turn.dispatcher_calls <= 1
    /\ turn.dispatcher_calls = 1 => (turn.function_call.requested /\ turn.model_calls >= 1)
    /\ turn.model_calls = 2 => turn.dispatcher_calls = 1
    /\ Succeeded =>
           IF turn.function_call.requested
           THEN turn.model_calls = 2 /\ turn.dispatcher_calls = 1
                /\ Len(turn.function_calls) = 1
           ELSE turn.model_calls = 1 /\ turn.dispatcher_calls = 0
                /\ turn.function_calls = <<>>

\* C16: every get_stock_recommendation call ends, in a direct answer or in
\* the error state, after one model call without dispatcher invocation or
\* after one dispatcher invocation and one follow-up model call; no tool is
\* invoked a second time within the call.
C16_CallTerminatesOneToolAtMost ==
    /\ []StepsBounded
    /\ (pc = "START") ~> (pc = "idle")

\* A call that returned after a tool and the follow-up model call.
C16_Witness ==
    /\ Succeeded
    /\ turn.function_call.requested
    /\ turn.model_calls = 2
    /\ turn.dispatcher_calls = 1

\* The message list of the current call has been built.
MessagesBuilt == turn.messages # <<>>
Min(a, b) == IF a <= b THEN a ELSE b
SentHistory == SubSeq(turn.messages, 3, Len(turn.messages))

\* C17: the history turns in the message list sent to the model are the
\* last min(6, n) of the n stored turns, in stored order, and no older one.
C17_LastSixTurnsSent ==
    MessagesBuilt =>
        LET n == Len(turn.history_before)
            k == Min(6, n)
        IN /\ Len(SentHistory) = k
           /\ \A i \in 1..k : SentHistory[i] = turn.history_before[n - k + i]
           /\ \A j \in 1..(n - k) : \A i \in 1..Len(turn.messages) :
                  turn.messages[i] # turn.history_before[j]
           /\ turn.follow_up_messages # <<>> =>
                  SubSeq(turn.follow_up_messages, 1, Len(turn.messages)) = turn.messages

\* A call on a history of more than six turns has sent its first messages.
C17_Witness ==
    /\ MessagesBuilt
    /\ Len(turn.history_before) > 6
    /\ turn.model_calls = 1
    /\ SentHistory[1] = turn.history_before[Len(turn.history_before) - 5]

\* C18: the message list of the first model call is the system prompt, then
\* the trailing history, then the new user message as last element, and the
\* nine tool schemas are sent with the call.
C18_UserMessageLast ==
    (MessagesBuilt /\ turn.model_calls >= 1) =>
        /\ turn.messages[1].role = "system"
        /\ turn.messages[Len(turn.messages)] =
               [role |-> "user", content |-> turn.user_query]
        /\ \A i \in 2..(Len(turn.messages) - 1) :
               turn.messages[i] =
                   turn.history_before[Len(turn.history_before) - Len(turn.messages) + 1 + i]
        /\ Range(turn.functions) = RegisteredTools

\* Two logical sessions share the handler: one asks "q1", the other "q2".
SessionOf(query) == IF query = "q1" THEN "session_1" ELSE "session_2"

\* C19: the messages sent to the model for a call of one session hold no
\* user turn stored for the other session.
C19_SessionsIsolated ==
    MessagesBuilt =>
        \A i \in 2..Len(turn.messages) :
            turn.messages[i].role = "user" =>
                SessionOf(turn.messages[i].content) = SessionOf(turn.user_query)

(***************************************************************************)
(* Claims about what search_stocks_by_criteria counts and returns.         *)
(***************************************************************************)
SubstringKeys == {"valuation_rating", "global_evaluation", "sector", "industry"}

\* Row l satisfies every criterion present in c: the numeric bounds
\* inclusively, the substring criteria ignoring case; a missing cell
\* satisfies no criterion.
Satisfies(l, c) ==
    /\ "min_stars" \in DOMAIN c => (df[l]["Stars"] # NaN /\ df[l]["Stars"] >= c["min_stars"])
    /\ "max_stars" \in DOMAIN c => (df[l]["Stars"] # NaN /\ df[l]["Stars"] <= c["max_stars"])
    /\ "min_ytd_performance" \in DOMAIN c =>
           (/\ df[l]["Year to date performance"] # NaN
            /\ df[l]["Year to date performance"] >= c["min_ytd_performance"])
    /\ "max_pe_ratio" \in DOMAIN c =>
           (df[l]["Long Term PE"] # NaN /\ df[l]["Long Term PE"] <= c["max_pe_ratio"])
    /\ \A k \in SubstringKeys \cap DOMAIN c :
           /\ df[l][criterion_column(k)] # NaNStr
           /\ is_substring_nocase(c[k], df[l][criterion_column(k)])

SatisfyingRows == {l \in Labels(df) : Satisfies(l, call.criteria_dict)}
SearchLimit ==
    IF "limit" \in DOMAIN call.criteria_dict THEN call.criteria_dict["limit"] ELSE 20

\* s lists distinct rows, rated ones first and by non-increasing stars.
NonIncreasingStars(s) ==
    /\ \A i, j \in 1..Len(s) : i # j => s[i] # s[j]
    /\ \A i, j \in 1..Len(s) :
           (i < j /\ Stars(s[j]) # NaN) => (Stars(s[i]) # NaN /\ Stars(s[i]) >= Stars(s[j]))

\* C21: on a loaded table, total_matches counts exactly the rows that
\* satisfy every criterion present, and the stocks returned are the first
\* limit (20 when absent) of those rows by non-increasing stars.
C21_SearchIsIntersection ==
    (IsSearchCall /\ Len(df) > 0) =>
        /\ "total_matches" \in DOMAIN result
        /\ result.total_matches = Cardinality(SatisfyingRows)
        /\ Range(result.stocks) \subseteq SatisfyingRows
        /\ Len(result.stocks) = Min(SearchLimit, Cardinality(SatisfyingRows))
        /\ NonIncreasingStars(result.stocks)
        /\ \A l \in SatisfyingRows \ Range(result.stocks) :
               \A i \in 1..Len(result.stocks) :
                   Stars(l) # NaN => (Stars(result.stocks[i]) # NaN
                                      /\ Stars(result.stocks[i]) >= Stars(l))

\* The filter criteria in the order the claim fixes, and those of them
\* present in the criteria of the call.
CriterionOrder ==
    <<"min_stars", "max_stars", "min_ytd_performance", "max_pe_ratio",
      "valuation_rating", "global_evaluation", "sector", "industry">>
PresentCriteria == SelectSeq(CriterionOrder, LAMBDA k : k \in DOMAIN call.criteria_dict)

\* C22: applied_filters holds one description per filter criterion present,
\* none for an absent criterion or for limit, in the order min_stars,
\* max_stars, min_ytd_performance, max_pe_ratio, valuation_rating,
\* global_evaluation, sector, industry.
C22_AppliedFiltersInFixedOrder ==
    (IsSearchCall /\ "applied_filters" \in DOMAIN result) =>
        /\ Len(result.applied_filters) = Len(PresentCriteria)
        /\ \A i \in 1..Len(PresentCriteria) :
               result.applied_filters[i] =
                   filter_description(call.criteria_dict, PresentCriteria[i])

\* A search with a limit, a substring criterion and two numeric ones.
C22_Witness ==
    /\ IsSearchCall
    /\ "applied_filters" \in DOMAIN result
    /\ DOMAIN call.criteria_dict = {"limit", "industry", "max_pe_ratio", "min_stars"}
    /\ Len(result.applied_filters) = 3
    /\ result.applied_filters[3] = <<"Industry: ", <<"b">>>>
    /\ result.total_matches >= 1

(***************************************************************************)
(* Claims about get_industry_overview through the dispatcher.              *)
(***************************************************************************)
Averages == {"average_stars", "average_ytd_performance", "average_pe_ratio"}

\* C23: an overview delivered through the dispatcher shows an average that
\* is undefined, every matching row lacking the value, as null, and the
\* call does not fail.
C23_UndefinedAverageIsNull ==
    (IsProcessCall /\ call.name = "get_industry_overview"
                   /\ call.arguments = "{\"industry_name\": \"b\"}" /\ Len(df) > 0) =>
        /\ result.returned
        /\ \A f \in Averages \cap DOMAIN result.value.members :
               result.value.members[f].count = 0 =>
                   json_float_token(result.value.members[f]) = "null"

(***************************************************************************)
(* Claims about schema validation in the dispatcher.                       *)
(***************************************************************************)
\* The payload binds to the tool but breaks a bound its schema declares:
\* min_stars outside 0..4, limit outside 1..50, or a stock_list of fewer
\* than 2 or more than 10 items.
OutsideSchemaBounds ==
    /\ Payload.py = "dict"
    /\ DOMAIN Payload.kw \subseteq Parameters(call.function_name)
    /\ RequiredParameters(call.function_name) \subseteq DOMAIN Payload.kw
    /\ \/ ("min_stars" \in DOMAIN Payload.kw /\ Payload.kw["min_stars"] \notin 0..4)
       \/ ("limit" \in DOMAIN Payload.kw /\ Payload.kw["limit"] \notin 1..50)
       \/ ("stock_list" \in DOMAIN Payload.kw /\ Len(Payload.kw["stock_list"]) \notin 2..10)

\* C24: a call whose arguments break the bounds of the tool's schema is
\* answered with an error and no engine operation is invoked.
C24_SchemaBoundsValidated ==
    (IsExecuteCall /\ call.function_name \in RegisteredTools /\ OutsideSchemaBounds) =>
        /\ result.invoked = <<>>
        /\ "error" \in DOMAIN result.value

(***************************************************************************)
(* Claims about start-up without a configured dataset location.            *)
(***************************************************************************)
Unconfigured == "DATASET_PATH" \in DOMAIN call /\ call.DATASET_PATH = "None"

\* C25: with DATASET_PATH not configured every module imports without an
\* error and every engine operation returns the "No data available" error.
C25_UnconfiguredDegradesPerCall ==
    Unconfigured =>
        /\ call.fn = "import" => result.imported
        /\ call.fn \in EngineOperations =>
               ("error" \in DOMAIN result /\ result.error = <<"No data available">>)

(***************************************************************************)
(* Claims about not-found results.                                         *)
(***************************************************************************)
NotFoundOperations ==
    {"get_stock_details", "filter_stocks_by_industry", "filter_stocks_by_sector",
     "get_industry_overview"}
IsNotFound ==
    /\ "error" \in DOMAIN result
    /\ result.error[1] \in {"Stock not found: ", "No stocks found for industry: ",
                            "No stocks found for sector: "}

\* C26: a not-found result of get_stock_details, filter_stocks_by_industry,
\* filter_stocks_by_sector or get_industry_overview carries, next to the
\* error, a member with the valid alternatives of the table.
C26_NotFoundCarriesAlternatives ==
    (call.fn \in NotFoundOperations /\ IsNotFound) =>
        DOMAIN result \ {"error", "stocks"} # {}

(***************************************************************************)
(* Claims about the tool result in the follow-up call.                     *)
(***************************************************************************)
ToolRan == turn.dispatcher_calls = 1
DispatcherOutputs ==
    {o.value : o \in process_openai_function_call(df, turn.function_call.name,
                                                  turn.function_call.arguments)}
FoldedBack(out) ==
    /\ Len(turn.follow_up_messages) = Len(turn.messages) + 2
    /\ SubSeq(turn.follow_up_messages, 1, Len(turn.messages)) = turn.messages
    /\ turn.follow_up_messages[Len(turn.messages) + 1] =
           [role |-> "assistant", content |-> "None", function_call |-> turn.function_call]
    /\ turn.follow_up_messages[Len(turn.messages) + 2] =
           [role |-> "function", name |-> turn.function_call.name, content |-> out]
    /\ Len(turn.function_calls) = 1
    /\ turn.function_calls[1].function = turn.function_call.name
    /\ turn.function_calls[1].arguments = turn.function_call.arguments
    /\ turn.function_calls[1].result.value = out.members

\* C27: after the dispatcher ran for a requested tool, the follow-up
\* messages are the first call's messages, the assistant's request and one
\* function turn whose content is the dispatcher's output, success or error
\* alike; that output is what function_calls records; the call is then at
\* the follow-up model call, and unless a fault occurs it returns the
\* follow-up reply as response, without error member.
C27_ToolResultFoldedBack ==
    ToolRan =>
        /\ \E out \in DispatcherOutputs : FoldedBack(out)
        /\ turn.fault = "none" => pc \in {"FOLLOWUP_MODEL_TURN", "DIRECT_ANSWER", "idle"}
        /\ Succeeded =>
               /\ DOMAIN ret = {"response", "function_calls", "recommendations"}
               /\ ret.response = turn.response
               /\ ret.response \in Answers
               /\ ret.function_calls = turn.function_calls

\* A call whose tool answered with an error (the name is not registered) has
\* returned the follow-up reply.
C27_Witness ==
    /\ Succeeded
    /\ ToolRan
    /\ turn.function_call.name = "get_stock_price"
    /\ "error" \in DOMAIN turn.function_calls[1].result.value
    /\ "error" \in DOMAIN turn.follow_up_messages[Len(turn.follow_up_messages)].content.members
    /\ ret.response = "a2"

(***************************************************************************)
(* Claims about the list returned by search_stocks_by_criteria.            *)
(***************************************************************************)
\* The call returned every row that matched: the limit cut nothing off.
Untruncated == "total_matches" \in DOMAIN result /\ result.total_matches = Len(result.stocks)

ContainingRows ==
    {l \in Labels(df) : /\ df[l][call.column] # NaNStr
                        /\ is_substring_nocase(call.name, df[l][call.column])}
TotalKey == IF call.fn = "filter_stocks_by_industry" THEN "total_in_industry"
            ELSE "total_in_sector"
SortKey(l) ==
    CASE call.sort_by = "Stars" -> df[l]["Stars"]
      [] call.sort_by = "Global Evaluation" -> IF OnScale(l) THEN ScaleRank(l) ELSE 3
      [] OTHER -> df[l]["Year to date performance"]

\* C29: when at least one row holds the name, every returned stock is a row
\* whose field is present and holds the name as a case-insensitive
\* substring, the list has at most limit entries in non-increasing order of
\* the sort key, and total_in_industry (total_in_sector) is the number of
\* rows that hold the name.
C29_FilterReturnsContainingRows ==
    (IsFilterCall /\ ContainingRows # {}) =>
        /\ TotalKey \in DOMAIN result
        /\ Range(result.stocks) \subseteq ContainingRows
        /\ Len(result.stocks) <= call.limit
        /\ \A i, j \in 1..Len(result.stocks) :
               i < j => SortKey(result.stocks[i]) >= SortKey(result.stocks[j])
        /\ result[TotalKey] = Cardinality(ContainingRows)

(***************************************************************************)
(* Claims about the shape of the history over a sequence of calls.         *)
(***************************************************************************)
WellFormedHistory ==
    /\ Len(conversation_history) % 2 = 0
    /\ \A i \in 1..Len(conversation_history) :
           conversation_history[i].role = IF i % 2 = 1 THEN "user" ELSE "assistant"

\* The step that ends a successful call, and a clear_history call.
ReturnsAnswer == pc = "DIRECT_ANSWER" /\ pc' = "idle"
Clears == pc = "idle" /\ pc' = "idle"
HistoryStep ==
    /\ ReturnsAnswer =>
           conversation_history' = conversation_history \o
               <<[role |-> "user", content |-> turn.user_query],
                 [role |-> "assistant", content |-> turn.response]>>
    /\ Clears => conversation_history' = <<>>
    /\ (~ReturnsAnswer /\ ~Clears) => conversation_history' = conversation_history

\* C30: the history always has even length and alternates user and assistant
\* turns from a user turn; a successful call appends its (message, answer)
\* pair, clear_history empties the history, and no other step, a failing
\* call included, changes it: the history is the pairs of the successful
\* calls since the last clear, in call order.
C30_HistoryIsSuccessfulPairs ==
    /\ []WellFormedHistory
    /\ [][HistoryStep]_vars

\* A second call has succeeded on a handler whose history was empty again
\* (the first call failed, or succeeded and was cleared).
C30_Witness ==
    /\ Succeeded
    /\ turn.n = 2
    /\ turn.history_before = <<>>
    /\ conversation_history =
           <<[role |-> "user", content |-> "q2"], [role |-> "assistant", content |-> "a1"]>>

====
